---- MODULE Spec2Model ----
(***************************************************************************)
(* Echo-Meeting: the capture / mix / record controller of the App          *)
(* component (src/unnamed/part_001, the variant with the microphone        *)
(* toggle).  React state, refs and the platform objects the controller     *)
(* holds (display and microphone streams, AudioContext, MediaRecorder,     *)
(* interval timer) are the variables; every event handler or continuation  *)
(* of the asynchronous startRecording() is one action.                     *)
(*                                                                         *)
(* A "session" is one invocation of startRecording(); sessions are         *)
(* numbered 1, 2, ... in invocation order and a platform object is named   *)
(* by the session that created it.                                         *)
(*                                                                         *)
(* The recording store (handleDelete, handleAnalyze and analyzeAudio of    *)
(* src/services/geminiService.ts) and the AudioVisualizer component        *)
(* (src/unnamed/part_000) follow, each with the specification its          *)
(* properties are checked under.                                           *)
(***************************************************************************)
EXTENDS Integers, Sequences, FiniteSets, TLC

\* ---- bounds of the model ----
MaxSessions == 2    \* startRecording() invocations explored
MaxTimer == 2       \* one-second ticks explored per session
MaxChunks == 1      \* non-empty chunks buffered per session
MaxAnalyses == 2    \* handleAnalyze() invocations explored
MaxStreams == 2     \* distinct streams handed to the visualizer
MaxFrames == 4      \* animation frames requested by the visualizer

Sessions == 1..MaxSessions

\* ---- RecorderState (types) ----
IDLE == "IDLE"
PREPARING == "PREPARING"
RECORDING == "RECORDING"
PAUSED == "PAUSED"
PROCESSING == "PROCESSING"
RecorderState == {IDLE, PREPARING, RECORDING, PAUSED, PROCESSING}

\* ---- messages ----
NoError == "null"
ShareAudioMsg == "Please check 'Share Audio' in the browser popup to record Teams audio."
OtherErrorMsg == "Failed to start recording"

\* ---- text: a string is the sequence of its parts, "" is the empty one ----
NoText == <<>>
TranscriptionHeading == "## Transcription"
SummaryHeading == "## Summary"
FallbackSummary == "Could not generate structured summary."

VARIABLES
  \* React state of App
  recorderState,     \* useState<RecorderState>
  recordings,        \* useState<Recording[]>, head = index 1
  timer,             \* useState(0): the elapsed-seconds counter
  errorMsg,          \* useState<string|null>
  includeMic,        \* useState(true)
  \* refs of App (0 = null, otherwise the session owning the object)
  mediaRecorderRef,
  audioContextRef,
  mixedStreamRef,
  timerIntervalRef,
  activeStreams,     \* set of <<session, "sys"|"mic">>
  \* the running startRecording()
  pc,                \* "idle" | "awaitDisplay" | "awaitMic"
  cur,               \* number of startRecording() invocations so far
  capTimer,          \* per session: `timer` of the render whose closure runs
  capMic,            \* `includeMic` of the render whose startRecording() runs
  \* platform objects, per session
  displayResult,     \* what getDisplayMedia() settled with
  micResult,         \* "none" | "granted" | "failed"
  sysTrack,          \* tracks of the display stream: "none" or their readyState
  micTrack,          \* tracks of the microphone stream, likewise
  ctx,               \* AudioContext.state: "none" | "running" | "closed"
  connected,         \* sources connected to the mixing destination
  recState,          \* MediaRecorder.state: "none" | "recording" | "inactive"
  chunks,            \* number of non-empty chunks pushed
  \* platform, global
  intervals,         \* live setInterval handles
  eventQ,            \* recorder events queued by MediaRecorder.stop()
  now,               \* Date.now() as last read
  objectURLs,        \* handles allocated by URL.createObjectURL
  \* history
  nCreated,          \* per session: how many Recordings its stop events built
  \* history of the session in progress, reset by startRecording()
  lastFinal,         \* its finalization: duration stored, counter at stop
  stops,             \* triggers that called stopRecording()
  elapsedAtStop      \* `timer` state when its recorder was stopped

VARIABLES
  \* the recording store
  processingIds,     \* useState<Set<string>>
  calls,             \* analyzeAudio() calls in flight: the identifier, whether the
                     \* request is sent, and how many Recordings had been
                     \* finalized at the click
  apiKey,            \* process.env.API_KEY of the build ("" = absent or empty)
  clients,           \* GoogleGenAI clients constructed
  requests,          \* generateContent requests sent
  alerts,            \* alert() dialogs shown
  nAnalyze,          \* handleAnalyze() invocations
  \* history of the store
  deleted,           \* identifiers handleDelete() was called with
  analyzed           \* identifiers whose analysis returned a result

VARIABLES
  \* the AudioVisualizer component
  vizPhase,          \* "unmounted" (not yet rendered) | "mounted" | "removed"
  vizStream,         \* prop `stream` of the last effect run (0 = null)
  vizActive,         \* prop `isRecording` of the last effect run
  vizHasCleanup,     \* the last effect run returned its cleanup function
  animationRef,      \* animationRef.current (0 = null)
  pendingFrames,     \* requestAnimationFrame handles not yet run or cancelled
  nFrames,           \* requestAnimationFrame handles issued
  vizCtx,            \* state of audioContextRef.current: "none" | "running" | "closed"
  analyserRef,       \* stream analyserRef.current taps (0 = null)
  canvas             \* "blank" | "bars"

captureVars == <<recorderState, recordings, timer, errorMsg, includeMic,
          mediaRecorderRef, audioContextRef, mixedStreamRef, timerIntervalRef,
          activeStreams, pc, cur, capTimer, capMic, displayResult, micResult,
          sysTrack, micTrack, ctx, connected, recState, chunks, intervals,
          eventQ, now, objectURLs, nCreated, lastFinal, stops, elapsedAtStop>>

storeVars == <<processingIds, calls, apiKey, clients, requests, alerts, nAnalyze,
               deleted, analyzed>>

vizVars == <<vizPhase, vizStream, vizActive, vizHasCleanup, animationRef,
             pendingFrames, nFrames, vizCtx, analyserRef, canvas>>

vars == <<captureVars, storeVars, vizVars>>

\* ---- what getDisplayMedia() can settle with ----
Pending == [ok |-> FALSE, name |-> "pending", audioTracks |-> 0]
DisplayOutcomes ==
  { [ok |-> FALSE, name |-> "NotAllowedError", audioTracks |-> 0],
    [ok |-> FALSE, name |-> "NotFoundError", audioTracks |-> 0],
    [ok |-> TRUE, name |-> "", audioTracks |-> 0],
    [ok |-> TRUE, name |-> "", audioTracks |-> 1] }

Init ==
  /\ recorderState = IDLE
  /\ recordings = <<>>
  /\ timer = 0
  /\ errorMsg = NoError
  /\ includeMic = TRUE
  /\ mediaRecorderRef = 0
  /\ audioContextRef = 0
  /\ mixedStreamRef = 0
  /\ timerIntervalRef = 0
  /\ activeStreams = {}
  /\ pc = "idle"
  /\ cur = 0
  /\ capTimer = [s \in Sessions |-> 0]
  /\ capMic = FALSE
  /\ displayResult = [s \in Sessions |-> Pending]
  /\ micResult = [s \in Sessions |-> "none"]
  /\ sysTrack = [s \in Sessions |-> "none"]
  /\ micTrack = [s \in Sessions |-> "none"]
  /\ ctx = [s \in Sessions |-> "none"]
  /\ connected = [s \in Sessions |-> {}]
  /\ recState = [s \in Sessions |-> "none"]
  /\ chunks = [s \in Sessions |-> 0]
  /\ intervals = {}
  /\ eventQ = <<>>
  /\ now = 0
  /\ objectURLs = {}
  /\ nCreated = [s \in Sessions |-> 0]
  /\ lastFinal = [duration |-> 0, elapsed |-> 0]
  /\ stops = {}
  /\ elapsedAtStop = 0
  /\ processingIds = {}
  /\ calls = {}
  /\ apiKey \in {"", "key"}
  /\ clients = 0
  /\ requests = 0
  /\ alerts = 0
  /\ nAnalyze = 0
  /\ deleted = {}
  /\ analyzed = {}
  /\ vizPhase = "unmounted"
  /\ vizStream = 0
  /\ vizActive = FALSE
  /\ vizHasCleanup = FALSE
  /\ animationRef = 0
  /\ pendingFrames = {}
  /\ nFrames = 0
  /\ vizCtx = "none"
  /\ analyserRef = 0
  /\ canvas = "blank"

\* ---- cleanup(), one operator per resource it releases ----

\* activeStreams.current.forEach(stream => stream.getTracks().forEach(t => t.stop()))
\* (a stopped track has readyState "ended", like one that ended by itself)
StopTracks(tr, streams, kind) ==
  [s \in Sessions |->
     IF <<s, kind>> \in streams /\ tr[s] = "live" THEN "ended" ELSE tr[s]]

\* cleanup() that leaves the audio graph open
CloseCtx_Never(cx, ref) == cx

\* if (audioContextRef.current && state !== 'closed') audioContextRef.current.close()
CloseCtx(cx, ref) ==
  IF ref # 0 /\ cx[ref] # "closed" THEN [cx EXCEPT ![ref] = "closed"] ELSE cx

\* if (timerIntervalRef.current) clearInterval(timerIntervalRef.current)
ClearTimer(iv, ref) ==
  IF ref # 0 THEN iv \ {ref} ELSE iv


\* ---- guards of the two buttons and of stopRecording() ----

\* a start button that stays available while RECORDING
CanStart_WhileRecording(rs) == rs # PREPARING

\* the start button is rendered unless RECORDING and disabled while PREPARING
CanStart(rs) == rs # RECORDING /\ rs # PREPARING

\* the stop button is rendered only while RECORDING
StopButtonShown(rs) == rs = RECORDING

\* stopRecording() without the recorder-state test
CanStop_NoStateTest(ref, rs) == ref # 0

\* if (mediaRecorderRef.current && mediaRecorderRef.current.state !== 'inactive')
CanStop(ref, rs) == ref # 0 /\ rs[ref] # "inactive"

\* an inner catch that rethrows every rejection
IsPermissionDenied_Never(name) == FALSE

\* e.name === 'NotAllowedError' : the silent return of the inner catch
IsPermissionDenied(name) == name = "NotAllowedError"

\* a start() that does not look at the audio tracks
NoSystemAudio_Unchecked(nAudioTracks) == FALSE

\* systemStream.getAudioTracks().length === 0
NoSystemAudio(nAudioTracks) == nAudioTracks = 0

\* err.message || "Failed to start recording": the message thrown at line 108
\* for a stream without audio, the platform's own message (or the fallback)
\* for a rejection
MessageOf(outcome) ==
  IF outcome.ok THEN ShareAudioMsg ELSE OtherErrorMsg

\* ---- stopRecording() ----
\* MediaRecorder.stop() makes the recorder inactive at once and queues a final
\* dataavailable event followed by the stop event.
StopRecording(trigger) ==
  /\ stops' = stops \cup {trigger}
  /\ IF CanStop(mediaRecorderRef, recState)
       THEN /\ recState' = [recState EXCEPT ![mediaRecorderRef] = "inactive"]
            /\ elapsedAtStop' = timer
            /\ eventQ' = eventQ \o <<[s |-> mediaRecorderRef, type |-> "dataavailable"],
                                     [s |-> mediaRecorderRef, type |-> "stop"]>>
       ELSE UNCHANGED <<recState, eventQ, elapsedAtStop>>

\* ---- startRecording(), up to the first await ----
StartClick ==
  /\ UNCHANGED <<storeVars, vizVars>>
  /\ CanStart(recorderState)
  /\ cur < MaxSessions
  /\ cur' = cur + 1
  /\ errorMsg' = NoError
  /\ recorderState' = PREPARING
  \* cleanup()
  /\ sysTrack' = StopTracks(sysTrack, activeStreams, "sys")
  /\ micTrack' = StopTracks(micTrack, activeStreams, "mic")
  /\ activeStreams' = {}
  /\ intervals' = ClearTimer(intervals, timerIntervalRef)
  \* new AudioContext(), after cleanup() closed the one the ref holds
  /\ ctx' = [CloseCtx(ctx, audioContextRef) EXCEPT ![cur + 1] = "running"]
  \* the closure of this render
  /\ capTimer' = [capTimer EXCEPT ![cur + 1] = timer]
  /\ capMic' = includeMic
  /\ stops' = {}
  /\ elapsedAtStop' = 0
  /\ lastFinal' = [duration |-> 0, elapsed |-> 0]
  /\ pc' = "awaitDisplay"
  /\ UNCHANGED <<recordings, timer, includeMic, mediaRecorderRef, audioContextRef,
                 mixedStreamRef, timerIntervalRef, displayResult, micResult,
                 connected, recState, chunks, eventQ, now, objectURLs, nCreated>>

\* ---- the outer catch: setErrorMsg; setRecorderState(IDLE); cleanup() ----
\* tr, mt: the track states at the throw
OuterCatch_KeepsState(msg, tr, mt) ==
  /\ errorMsg' = msg
  /\ recorderState' = recorderState
  /\ sysTrack' = StopTracks(tr, activeStreams, "sys")
  /\ micTrack' = StopTracks(mt, activeStreams, "mic")
  /\ activeStreams' = {}
  /\ ctx' = CloseCtx(ctx, audioContextRef)
  /\ intervals' = ClearTimer(intervals, timerIntervalRef)
  /\ pc' = "idle"
  /\ UNCHANGED <<timer, mediaRecorderRef, audioContextRef, mixedStreamRef,
                 timerIntervalRef, recState, connected>>

OuterCatch(msg, tr, mt) ==
  /\ errorMsg' = msg
  /\ recorderState' = IDLE
  /\ sysTrack' = StopTracks(tr, activeStreams, "sys")
  /\ micTrack' = StopTracks(mt, activeStreams, "mic")
  /\ activeStreams' = {}
  /\ ctx' = CloseCtx(ctx, audioContextRef)
  /\ intervals' = ClearTimer(intervals, timerIntervalRef)
  /\ pc' = "idle"
  /\ UNCHANGED <<timer, mediaRecorderRef, audioContextRef, mixedStreamRef,
                 timerIntervalRef, recState, connected>>

\* ---- startRecording(), from the refs assignment to its end ----
FinishStart ==
  /\ audioContextRef' = cur
  /\ mixedStreamRef' = cur
  /\ recState' = [recState EXCEPT ![cur] = "recording"]
  /\ mediaRecorderRef' = cur
  /\ recorderState' = RECORDING
  /\ timer' = 0
  /\ timerIntervalRef' = cur
  /\ intervals' = intervals \cup {cur}
  /\ pc' = "idle"
  /\ UNCHANGED <<errorMsg, ctx>>

\* ---- getDisplayMedia() settles ----
DisplayResolved ==
  /\ UNCHANGED <<storeVars, vizVars>>
  /\ pc = "awaitDisplay"
  /\ \E outcome \in DisplayOutcomes :
       /\ displayResult' = [displayResult EXCEPT ![cur] = outcome]
       /\ IF ~outcome.ok
            THEN IF IsPermissionDenied(outcome.name)
                   THEN /\ recorderState' = IDLE
                        /\ pc' = "idle"
                        /\ UNCHANGED <<errorMsg, sysTrack, micTrack, activeStreams, ctx,
                                       intervals, timer, mediaRecorderRef, audioContextRef,
                                       mixedStreamRef, timerIntervalRef, recState, connected>>
                   ELSE OuterCatch(MessageOf(outcome), sysTrack, micTrack)
            ELSE IF NoSystemAudio(outcome.audioTracks)
                   THEN OuterCatch(MessageOf(outcome),
                                   [sysTrack EXCEPT ![cur] = "ended"], micTrack)
                   ELSE /\ sysTrack' = [sysTrack EXCEPT ![cur] = "live"]
                        /\ connected' = [connected EXCEPT ![cur] = @ \cup {"sys"}]
                        /\ activeStreams' = activeStreams \cup {<<cur, "sys">>}
                        /\ UNCHANGED micTrack
                        /\ IF capMic
                             THEN /\ pc' = "awaitMic"
                                  /\ UNCHANGED <<recorderState, errorMsg, ctx, intervals, timer,
                                                 mediaRecorderRef, audioContextRef, mixedStreamRef,
                                                 timerIntervalRef, recState>>
                             ELSE FinishStart
  /\ UNCHANGED <<recordings, includeMic, cur, capTimer, capMic, micResult, chunks,
                 eventQ, now, objectURLs, nCreated, lastFinal, stops, elapsedAtStop>>

\* ---- getUserMedia() settles ----
MicGranted ==
  /\ micResult' = [micResult EXCEPT ![cur] = "granted"]
  /\ micTrack' = [micTrack EXCEPT ![cur] = "live"]
  /\ connected' = [connected EXCEPT ![cur] = @ \cup {"mic"}]
  /\ activeStreams' = activeStreams \cup {<<cur, "mic">>}
  /\ UNCHANGED sysTrack
  /\ FinishStart

\* a microphone failure that reaches the outer catch
MicFailed_Throws ==
  /\ micResult' = [micResult EXCEPT ![cur] = "failed"]
  /\ OuterCatch(OtherErrorMsg, sysTrack, micTrack)

\* catch (e) { console.warn("Microphone access denied", e); } and on to the recorder
MicFailed ==
  /\ micResult' = [micResult EXCEPT ![cur] = "failed"]
  /\ UNCHANGED <<sysTrack, micTrack, connected, activeStreams>>
  /\ FinishStart

MicResolved ==
  /\ UNCHANGED <<storeVars, vizVars>>
  /\ pc = "awaitMic"
  /\ (MicGranted \/ MicFailed)
  /\ UNCHANGED <<recordings, includeMic, cur, capTimer, capMic, displayResult,
                 chunks, eventQ, now, objectURLs, nCreated, lastFinal, stops, elapsedAtStop>>

\* ---- the display track ends: videoTrack.onended = () => stopRecording() ----
\* The handler is registered in the same synchronous block that acquires the
\* stream, so every live display track carries it.
TrackEnded ==
  /\ UNCHANGED <<storeVars, vizVars>>
  /\ \E s \in Sessions :
       /\ sysTrack[s] = "live"
       /\ sysTrack' = [sysTrack EXCEPT ![s] = "ended"]
  /\ StopRecording("trackended")
  /\ UNCHANGED <<recorderState, recordings, timer, errorMsg, includeMic, mediaRecorderRef,
                 audioContextRef, mixedStreamRef, timerIntervalRef, activeStreams, pc, cur,
                 capTimer, capMic, displayResult, micResult, micTrack, ctx, connected,
                 chunks, intervals, now, objectURLs, nCreated, lastFinal>>

\* ---- the stop button: onClick={stopRecording} ----
StopClick ==
  /\ UNCHANGED <<storeVars, vizVars>>
  /\ StopButtonShown(recorderState)
  /\ StopRecording("manual")
  /\ UNCHANGED <<recorderState, recordings, timer, errorMsg, includeMic, mediaRecorderRef,
                 audioContextRef, mixedStreamRef, timerIntervalRef, activeStreams, pc, cur,
                 capTimer, capMic, displayResult, micResult, sysTrack, micTrack, ctx,
                 connected, chunks, intervals, now, objectURLs, nCreated, lastFinal>>

\* ---- recorder.ondataavailable: if (e.data.size > 0) chunks.push(e.data) ----
OnData(ch, s, size) ==
  [ch EXCEPT ![s] = IF size > 0 THEN @ + 1 ELSE @]

\* sizes a chunk can have while the model still has room for it
ChunkSizes(s) == IF chunks[s] < MaxChunks THEN {0, 1} ELSE {0}

\* the periodic flush of recorder.start(1000)
RecorderData ==
  /\ UNCHANGED <<storeVars, vizVars>>
  /\ \E s \in Sessions :
       /\ recState[s] = "recording"
       /\ \E size \in ChunkSizes(s) : chunks' = OnData(chunks, s, size)
  /\ UNCHANGED <<recorderState, recordings, timer, errorMsg, includeMic, mediaRecorderRef,
                 audioContextRef, mixedStreamRef, timerIntervalRef, activeStreams, pc, cur,
                 capTimer, capMic, displayResult, micResult, sysTrack, micTrack, ctx,
                 connected, recState, intervals, eventQ, now, objectURLs, nCreated,
                 lastFinal, stops, elapsedAtStop>>

\* the final dataavailable that MediaRecorder.stop() queued
RecorderFlush ==
  /\ UNCHANGED <<storeVars, vizVars>>
  /\ eventQ # <<>>
  /\ Head(eventQ).type = "dataavailable"
  /\ \E size \in ChunkSizes(Head(eventQ).s) :
       chunks' = OnData(chunks, Head(eventQ).s, size)
  /\ eventQ' = Tail(eventQ)
  /\ UNCHANGED <<recorderState, recordings, timer, errorMsg, includeMic, mediaRecorderRef,
                 audioContextRef, mixedStreamRef, timerIntervalRef, activeStreams, pc, cur,
                 capTimer, capMic, displayResult, micResult, sysTrack, micTrack, ctx,
                 connected, recState, intervals, now, objectURLs, nCreated, lastFinal,
                 stops, elapsedAtStop>>

\* ---- recorder.onstop ----
\* `timer` in the handler is the variable of the render in which
\* startRecording() was invoked: capTimer of the session.
\* t is what Date.now() returns at this finalization. The clock never runs
\* backwards, and since the previous finalization a getDisplayMedia() prompt
\* has been shown and answered, which takes longer than one unit of the clock.
\* Readings are only ever compared with each other (identifiers for equality,
\* timestamps for order), so they are numbered in the order they are taken.
ClockReadings_Stalled == {now}

ClockReadings == {now + 1}

NewRecording(s, t) ==
  [ id |-> t,
    size |-> chunks[s],
    url |-> Cardinality(objectURLs) + 1,
    timestamp |-> t,
    duration |-> capTimer[s],
    transcription |-> NoText,
    summary |-> NoText ]

\* setRecordings(prev => [newRecording, ...prev])
AddRecording_Append(newRecording, prev) == prev \o <<newRecording>>

AddRecording(newRecording, prev) == <<newRecording>> \o prev

RecorderOnStop ==
  /\ UNCHANGED <<storeVars, vizVars>>
  /\ eventQ # <<>>
  /\ Head(eventQ).type = "stop"
  /\ \E t \in ClockReadings :
       LET s == Head(eventQ).s
           newRecording == NewRecording(s, t)
       IN  /\ now' = t
           /\ objectURLs' = objectURLs \cup {newRecording.url}
           /\ recordings' = AddRecording(newRecording, recordings)
           /\ nCreated' = [nCreated EXCEPT ![s] = @ + 1]
           /\ lastFinal' = [duration |-> newRecording.duration,
                            elapsed |-> elapsedAtStop]
  /\ eventQ' = Tail(eventQ)
  /\ recorderState' = IDLE
  /\ timer' = 0
  \* cleanup()
  /\ sysTrack' = StopTracks(sysTrack, activeStreams, "sys")
  /\ micTrack' = StopTracks(micTrack, activeStreams, "mic")
  /\ activeStreams' = {}
  /\ ctx' = CloseCtx(ctx, audioContextRef)
  /\ intervals' = ClearTimer(intervals, timerIntervalRef)
  /\ UNCHANGED <<errorMsg, includeMic, mediaRecorderRef, audioContextRef, mixedStreamRef,
                 timerIntervalRef, pc, cur, capTimer, capMic, displayResult, micResult,
                 connected, recState, chunks, stops, elapsedAtStop>>

\* ---- setInterval(() => setTimer(t => t + 1), 1000) ----
Tick ==
  /\ UNCHANGED <<storeVars, vizVars>>
  /\ intervals # {}
  /\ timer < MaxTimer
  /\ timer' = timer + 1
  /\ UNCHANGED <<recorderState, recordings, errorMsg, includeMic, mediaRecorderRef,
                 audioContextRef, mixedStreamRef, timerIntervalRef, activeStreams, pc, cur,
                 capTimer, capMic, displayResult, micResult, sysTrack, micTrack, ctx,
                 connected, recState, chunks, intervals, eventQ, now, objectURLs,
                 nCreated, lastFinal, stops, elapsedAtStop>>

\* ---- the microphone checkbox, disabled unless IDLE ----
ToggleMic ==
  /\ UNCHANGED <<storeVars, vizVars>>
  /\ recorderState = IDLE
  /\ includeMic' = ~includeMic
  /\ UNCHANGED <<recorderState, recordings, timer, errorMsg, mediaRecorderRef,
                 audioContextRef, mixedStreamRef, timerIntervalRef, activeStreams, pc, cur,
                 capTimer, capMic, displayResult, micResult, sysTrack, micTrack, ctx,
                 connected, recState, chunks, intervals, eventQ, now, objectURLs,
                 nCreated, lastFinal, stops, elapsedAtStop>>

\* ======================= the recording store ==========================

Ids(list) == {list[i].id : i \in 1..Len(list)}

\* Recordings finalized so far
RECURSIVE CreatedUpTo(_)
CreatedUpTo(s) == IF s = 0 THEN 0 ELSE nCreated[s] + CreatedUpTo(s - 1)

TotalCreated == CreatedUpTo(MaxSessions)

\* ---- handleDelete: prev.filter(r => r.id !== id) ----
RemoveById_AndNewer(prev, id) == SelectSeq(prev, LAMBDA r : r.id < id)

RemoveById(prev, id) == SelectSeq(prev, LAMBDA r : r.id # id)

\* the delete button of the card of recording id
HandleDelete(id) ==
  /\ id \in Ids(recordings)
  /\ recordings' = RemoveById(recordings, id)
  /\ deleted' = deleted \cup {id}
  /\ UNCHANGED <<processingIds, calls, apiKey, clients, requests, alerts, nAnalyze,
                 analyzed>>

\* ---- analyzeAudio: the credential test ----
KeyMissing_Unchecked(key) == FALSE

KeyMissing(key) == key = ""

\* ---- analyzeAudio: what the model may answer (response.text || "") ----
Texts ==
  { <<TranscriptionHeading, "words", SummaryHeading, "points">>,
    <<"words">>,
    NoText }

\* generateContent rejects, or resolves with a response
Responses == {[ok |-> FALSE, text |-> NoText]} \cup {[ok |-> TRUE, text |-> t] : t \in Texts}

\* text.indexOf(part), counted from 1; 0 when absent
IndexOf(text, part) ==
  IF \E i \in 1..Len(text) : text[i] = part
    THEN CHOOSE i \in 1..Len(text) :
           /\ text[i] = part
           /\ \A j \in 1..(i - 1) : text[j] # part
    ELSE 0

\* text.replace(part, "").trim()
RemoveFirst(text, part) ==
  LET i == IndexOf(text, part)
  IN  IF i = 0 THEN text
      ELSE SubSeq(text, 1, i - 1) \o SubSeq(text, i + 1, Len(text))

ParseResponse(text) ==
  LET summaryIndex == IndexOf(text, SummaryHeading)
  IN  IF summaryIndex # 0
        THEN [ transcription |->
                 RemoveFirst(SubSeq(text, 1, summaryIndex - 1), TranscriptionHeading),
               summary |->
                 RemoveFirst(SubSeq(text, summaryIndex, Len(text)), SummaryHeading) ]
        ELSE [ transcription |-> text,
               summary |-> <<FallbackSummary>> ]

\* ---- handleAnalyze ----
\* the "AI Summary & Transcript" button of the card of recording id
AnalyzeShown(id) ==
  \E i \in 1..Len(recordings) :
     /\ recordings[i].id = id
     /\ recordings[i].transcription = NoText

\* prev.map(r => r.id === id ? { ...r, transcription, summary } : r)
ApplyResult_OrAdd(prev, id, result) ==
  IF id \in Ids(prev)
    THEN [i \in 1..Len(prev) |->
            IF prev[i].id = id
              THEN [prev[i] EXCEPT !.transcription = result.transcription,
                                   !.summary = result.summary]
              ELSE prev[i]]
    ELSE <<[id |-> id, size |-> 1, url |-> 1, timestamp |-> id, duration |-> 0,
            transcription |-> result.transcription, summary |-> result.summary]>>
         \o prev

ApplyResult_Swapped(prev, id, result) ==
  [i \in 1..Len(prev) |->
     IF prev[i].id = id
       THEN [prev[i] EXCEPT !.transcription = result.summary,
                            !.summary = result.transcription]
       ELSE prev[i]]

ApplyResult(prev, id, result) ==
  [i \in 1..Len(prev) |->
     IF prev[i].id = id
       THEN [prev[i] EXCEPT !.transcription = result.transcription,
                            !.summary = result.summary]
       ELSE prev[i]]

\* catch { alert(...) } finally { setProcessingIds(prev => prev without id) }
\* of the call c; p is the processing set the functional update starts from
AnalyzeFailed_NoFinally(c, p) ==
  /\ alerts' = alerts + 1
  /\ processingIds' = p
  /\ calls' = calls \ {c}
  /\ UNCHANGED <<recordings, analyzed>>

AnalyzeFailed(c, p) ==
  /\ alerts' = alerts + 1
  /\ processingIds' = p \ {c.id}
  /\ calls' = calls \ {c}
  /\ UNCHANGED <<recordings, analyzed>>

\* the click, up to the first await that yields to the event loop: with the
\* credential missing analyzeAudio() rejects at once and the catch and the
\* finally run before any other event is handled
HandleAnalyze(id) ==
  /\ AnalyzeShown(id)
  /\ id \notin processingIds
  /\ nAnalyze < MaxAnalyses
  /\ nAnalyze' = nAnalyze + 1
  /\ IF KeyMissing(apiKey)
       THEN /\ AnalyzeFailed([id |-> id, sent |-> FALSE, seen |-> TotalCreated],
                             processingIds \cup {id})
            /\ UNCHANGED clients
       ELSE /\ clients' = clients + 1
            /\ processingIds' = processingIds \cup {id}
            /\ calls' = calls \cup {[id |-> id, sent |-> FALSE, seen |-> TotalCreated]}
            /\ UNCHANGED <<recordings, alerts, analyzed>>
  /\ UNCHANGED <<apiKey, requests, deleted>>

\* blobToBase64 resolves and generateContent is called
BlobEncoded ==
  \E c \in calls :
     /\ ~c.sent
     /\ requests' = requests + 1
     /\ calls' = (calls \ {c}) \cup {[c EXCEPT !.sent = TRUE]}
     /\ UNCHANGED <<recordings, processingIds, apiKey, clients, alerts, nAnalyze,
                    deleted, analyzed>>

\* reader.onerror
BlobUnreadable ==
  \E c \in calls :
     /\ ~c.sent
     /\ AnalyzeFailed(c, processingIds)
     /\ UNCHANGED <<apiKey, clients, requests, nAnalyze, deleted>>

\* generateContent settles with r
AnalyzeSettled ==
  \E c \in calls, r \in Responses :
     /\ c.sent
     /\ IF r.ok
          THEN /\ recordings' = ApplyResult(recordings, c.id, ParseResponse(r.text))
               /\ processingIds' = processingIds \ {c.id}
               /\ calls' = calls \ {c}
               /\ analyzed' = analyzed \cup {c.id}
               /\ UNCHANGED alerts
          ELSE AnalyzeFailed(c, processingIds)
     /\ UNCHANGED <<apiKey, clients, requests, nAnalyze, deleted>>

\* the frame every store action leaves alone
CaptureRest ==
  <<recorderState, timer, errorMsg, includeMic, mediaRecorderRef,
    audioContextRef, mixedStreamRef, timerIntervalRef, activeStreams, pc, cur,
    capTimer, capMic, displayResult, micResult, sysTrack, micTrack, ctx,
    connected, recState, chunks, intervals, eventQ, now, objectURLs, nCreated,
    lastFinal, stops, elapsedAtStop>>

Delete == (\E id \in Ids(recordings) : HandleDelete(id)) /\ UNCHANGED <<CaptureRest, vizVars>>

Analyze == (\E id \in Ids(recordings) : HandleAnalyze(id)) /\ UNCHANGED <<CaptureRest, vizVars>>

Encoded == BlobEncoded /\ UNCHANGED <<CaptureRest, vizVars>>

Unreadable == BlobUnreadable /\ UNCHANGED <<CaptureRest, vizVars>>

Settled == AnalyzeSettled /\ UNCHANGED <<CaptureRest, vizVars>>

\* The store under the capture steps that lead to a finalization. The one-second
\* tick, the microphone checkbox, the timeslice chunks and a track ending by
\* itself write only capture state that no operation of the store reads.
NextStore ==
  \/ StartClick
  \/ DisplayResolved
  \/ MicResolved
  \/ StopClick
  \/ RecorderFlush
  \/ RecorderOnStop
  \/ Delete
  \/ Analyze
  \/ Encoded
  \/ Unreadable
  \/ Settled

SpecStore == Init /\ [][NextStore]_vars


\* ===================== the AudioVisualizer component ==================

\* values of the prop `stream`; 0 is null
VizStreams == 0..MaxStreams

\* if (!stream || !isRecording)
VizInactive(stream, isRecording) == stream = 0 \/ ~isRecording

\* cancelAnimationFrame(animationRef.current), guarded by the ref being set
CancelFrame(pending) == IF animationRef # 0 THEN pending \ {animationRef} ELSE pending

\* the function the active effect returns:
\*   if (animationRef.current) cancelAnimationFrame(animationRef.current);
\*   if (audioContextRef.current) audioContextRef.current.close();
\* as the frames and the context state it leaves; it runs only when the last
\* effect run returned it
CleanupFrames_NoCancel == pendingFrames

CleanupFrames == IF vizHasCleanup THEN CancelFrame(pendingFrames) ELSE pendingFrames

CleanupCtx == IF vizHasCleanup /\ vizCtx # "none" THEN "closed" ELSE vizCtx

\* the effect of [stream, isRecording], run after the cleanup of the last one
RunEffect(stream, isRecording) ==
  /\ vizStream' = stream
  /\ vizActive' = isRecording
  /\ IF VizInactive(stream, isRecording)
       THEN /\ vizCtx' = IF CleanupCtx = "running" THEN "closed" ELSE CleanupCtx
            /\ pendingFrames' = CancelFrame(CleanupFrames)
            /\ canvas' = "blank"
            /\ vizHasCleanup' = FALSE
            /\ UNCHANGED <<animationRef, nFrames, analyserRef>>
       ELSE \* initAudio(), whose last statement is the first draw()
            /\ nFrames < MaxFrames
            /\ vizCtx' = "running"
            /\ analyserRef' = stream
            /\ canvas' = "bars"
            /\ nFrames' = nFrames + 1
            /\ animationRef' = nFrames + 1
            /\ pendingFrames' = CleanupFrames \cup {nFrames + 1}
            /\ vizHasCleanup' = TRUE

\* first render
VizMount ==
  /\ vizPhase = "unmounted"
  /\ vizPhase' = "mounted"
  /\ \E stream \in VizStreams, isRecording \in BOOLEAN : RunEffect(stream, isRecording)
  /\ UNCHANGED <<captureVars, storeVars>>

\* a render with a changed dependency
VizUpdate ==
  /\ vizPhase = "mounted"
  /\ \E stream \in VizStreams, isRecording \in BOOLEAN :
        /\ <<stream, isRecording>> # <<vizStream, vizActive>>
        /\ RunEffect(stream, isRecording)
  /\ UNCHANGED <<vizPhase, captureVars, storeVars>>

\* the component is removed: the cleanup runs, the canvas is detached as drawn
VizUnmount ==
  /\ vizPhase = "mounted"
  /\ vizPhase' = "removed"
  /\ pendingFrames' = CleanupFrames
  /\ vizCtx' = CleanupCtx
  /\ vizHasCleanup' = FALSE
  /\ UNCHANGED <<vizStream, vizActive, animationRef, nFrames, analyserRef, canvas,
                 captureVars, storeVars>>

\* the browser runs a requested frame: draw()
VizFrame ==
  /\ \E f \in pendingFrames :
       IF vizPhase # "mounted" \/ analyserRef = 0
         THEN \* if (!canvasRef.current || !analyserRef.current) return
              /\ pendingFrames' = pendingFrames \ {f}
              /\ UNCHANGED <<canvas, nFrames, animationRef>>
         ELSE /\ nFrames < MaxFrames
              /\ canvas' = "bars"
              /\ nFrames' = nFrames + 1
              /\ animationRef' = nFrames + 1
              /\ pendingFrames' = (pendingFrames \ {f}) \cup {nFrames + 1}
  /\ UNCHANGED <<vizPhase, vizStream, vizActive, vizHasCleanup, vizCtx, analyserRef,
                 captureVars, storeVars>>

NextViz ==
  \/ VizMount
  \/ VizUpdate
  \/ VizUnmount
  \/ VizFrame

SpecViz == Init /\ [][NextViz]_vars


Next ==
  \/ StartClick
  \/ DisplayResolved
  \/ MicResolved
  \/ TrackEnded
  \/ StopClick
  \/ RecorderData
  \/ RecorderFlush
  \/ RecorderOnStop
  \/ Tick
  \/ ToggleMic

Spec == Init /\ [][Next]_vars

TypeOK ==
  /\ recorderState \in RecorderState
  /\ timer \in 0..MaxTimer
  /\ errorMsg \in {NoError, ShareAudioMsg, OtherErrorMsg}
  /\ includeMic \in BOOLEAN
  /\ mediaRecorderRef \in 0..MaxSessions
  /\ audioContextRef \in 0..MaxSessions
  /\ mixedStreamRef \in 0..MaxSessions
  /\ timerIntervalRef \in 0..MaxSessions
  /\ activeStreams \subseteq (Sessions \X {"sys", "mic"})
  /\ pc \in {"idle", "awaitDisplay", "awaitMic"}
  /\ cur \in 0..MaxSessions
  /\ \A s \in Sessions :
       /\ sysTrack[s] \in {"none", "live", "ended"}
       /\ micTrack[s] \in {"none", "live", "ended"}
       /\ ctx[s] \in {"none", "running", "closed"}
       /\ recState[s] \in {"none", "recording", "inactive"}
       /\ chunks[s] \in 0..MaxChunks
       /\ connected[s] \subseteq {"sys", "mic"}
  /\ intervals \subseteq Sessions
  /\ now \in 0..MaxSessions
  /\ \A i \in 1..Len(recordings) :
       /\ recordings[i].id \in 1..MaxSessions
       /\ recordings[i].transcription \in Texts \cup {<<"words">>}
       /\ Len(recordings[i].summary) <= 1
  /\ processingIds \subseteq 1..MaxSessions
  /\ \A c \in calls : c.id \in processingIds /\ c.sent \in BOOLEAN
  /\ apiKey \in {"", "key"}
  /\ clients \in 0..MaxAnalyses
  /\ requests \in 0..clients
  /\ alerts \in 0..nAnalyze
  /\ nAnalyze \in 0..MaxAnalyses
  /\ vizPhase \in {"unmounted", "mounted", "removed"}
  /\ vizStream \in VizStreams
  /\ vizActive \in BOOLEAN
  /\ vizHasCleanup \in BOOLEAN
  /\ animationRef \in 0..MaxFrames
  /\ pendingFrames \subseteq 1..MaxFrames
  /\ nFrames \in 0..MaxFrames
  /\ vizCtx \in {"none", "running", "closed"}
  /\ analyserRef \in VizStreams
  /\ canvas \in {"blank", "bars"}


\* ---- vocabulary of the properties ----

\* the start() of session s has returned
Returned(s) == s < cur \/ (s = cur /\ pc = "idle")

\* session s reached the recording state
ReachedRecording(s) == recState[s] # "none"

\* the stop event of session s has run (no recorder event of s is outstanding)
Finalized(s) ==
  /\ recState[s] = "inactive"
  /\ \A i \in 1..Len(eventQ) : eventQ[i].s # s

\* a track that holds no device any more
Released(t) == t \in {"none", "ended"}

Abs(n) == IF n < 0 THEN -n ELSE n

\* C1: every Recording built at finalization has a duration within one second
\* of the elapsed-seconds counter at that moment.
C1_DurationIsElapsed ==
  Abs(lastFinal.duration - lastFinal.elapsed) <= 1

\* C2: the controller is never recording on a display source that has already
\* ended: a display track that ended (at any time after start() acquired it,
\* the microphone await included) has stopped the session's recorder.
C2_NoRecordingOnEndedDisplay ==
  \A s \in Sessions :
    sysTrack[s] = "ended" => recState[s] # "recording"

\* C3: a start() that returned to idle without reaching the recording state has
\* released everything it acquired or created: tracks stopped, its audio graph
\* closed, no timer running.
C3_FailedStartReleasesAll ==
  \A s \in Sessions :
    (s <= cur /\ Returned(s) /\ ~ReachedRecording(s)) =>
      /\ Released(sysTrack[s])
      /\ Released(micTrack[s])
      /\ ctx[s] = "closed"
      /\ s \notin intervals

\* C4: no Recording in the list has an empty payload.
C4_NoEmptyPayload ==
  \A i \in 1..Len(recordings) : recordings[i].size > 0


\* C5: at most one capture session is active at a time: while a start() is
\* acquiring sources no recorder is recording or finalizing, and everything
\* the refs tracked of earlier sessions has been cleaned up (their streams
\* released, no timer running, the graph of every recorded session closed).
C5_OneActiveSession ==
  /\ Cardinality({s \in Sessions : recState[s] = "recording"}) <= 1
  /\ pc # "idle" =>
       /\ \A s \in Sessions : recState[s] # "recording"
       /\ eventQ = <<>>
       /\ intervals = {}
       /\ activeStreams \subseteq ({cur} \X {"sys", "mic"})
       /\ \A s \in 1..(cur - 1) :
            /\ Released(sysTrack[s])
            /\ Released(micTrack[s])
            /\ ReachedRecording(s) => ctx[s] = "closed"

C5_Witness ==
  /\ pc = "awaitMic"
  /\ cur = 2
  /\ Finalized(1)
  /\ micResult[1] = "granted"

\* C6: a session that reached the recording state produces exactly one
\* Recording, however many stop triggers fire for it, a session that did not
\* produces none, and a stopRecording() that finds no active recorder creates
\* nothing and leaves the recorder state alone.
C6_Inv ==
  \A s \in Sessions :
    /\ nCreated[s] <= 1
    /\ ~ReachedRecording(s) => nCreated[s] = 0
    /\ Finalized(s) => nCreated[s] = 1

C6_NoOpStop ==
  ((StopClick \/ TrackEnded) /\ ~CanStop(mediaRecorderRef, recState)) =>
    UNCHANGED <<recordings, recorderState, recState, eventQ, nCreated, timer>>

\* C6: exactly one Recording per recorded session, and a stopRecording() without
\* an active recorder is a no-op.
C6_ExactlyOneRecording == []C6_Inv /\ [][C6_NoOpStop]_vars

C6_Witness ==
  \E s \in Sessions :
    /\ s = cur
    /\ stops = {"manual", "trackended"}
    /\ Finalized(s)
    /\ recorderState = IDLE
    /\ Len(recordings) = 1

\* C7: a granted display capture with zero audio tracks ends start() in idle
\* with the 'share audio' message, the granted stream's tracks stopped, no
\* recorder started, no timer and no Recording.
C7_NoSystemAudio ==
  \A s \in Sessions :
    (displayResult[s].ok /\ displayResult[s].audioTracks = 0) =>
      /\ sysTrack[s] = "ended"
      /\ ~ReachedRecording(s)
      /\ nCreated[s] = 0
      /\ s \notin intervals
      /\ s = cur => /\ pc = "idle"
                    /\ recorderState = IDLE
                    /\ errorMsg = ShareAudioMsg

C7_Witness ==
  /\ cur = 2
  /\ displayResult[2].ok
  /\ displayResult[2].audioTracks = 0
  /\ Len(recordings) = 1

\* C8: a denied or cancelled display request returns to idle silently: state
\* idle, no error message, no recorder, no timer, no Recording.
C8_SilentDenial ==
  \A s \in Sessions :
    displayResult[s].name = "NotAllowedError" =>
      /\ ~ReachedRecording(s)
      /\ nCreated[s] = 0
      /\ s \notin intervals
      /\ sysTrack[s] = "none"
      /\ s = cur => /\ pc = "idle"
                    /\ recorderState = IDLE
                    /\ errorMsg = NoError
                    /\ timer = 0
                    /\ intervals = {}

C8_Witness ==
  /\ cur = 2
  /\ displayResult[2].name = "NotAllowedError"
  /\ errorMsg = NoError
  /\ displayResult[1].ok
  /\ displayResult[1].audioTracks = 0

\* C9: when the microphone was requested and its acquisition failed after the
\* display capture delivered audio, the session reaches the recording state
\* with only the system source connected, no error message is set, and its
\* stop produces a Recording.
C9_MicFailureDegrades ==
  \A s \in Sessions :
    micResult[s] = "failed" =>
      /\ ReachedRecording(s)
      /\ connected[s] = {"sys"}
      /\ recState[s] = "recording" => recorderState = RECORDING
      /\ Finalized(s) => nCreated[s] = 1
      /\ s = cur => errorMsg = NoError

C9_Witness ==
  \E s \in Sessions :
    /\ micResult[s] = "failed"
    /\ Finalized(s)
    /\ Len(recordings) = 1

\* C10: once the stop event has finalized a session, every stream the session
\* acquired has its tracks stopped, its audio graph is closed, its timer is
\* cancelled, and until the next start() the counter is zero and the state idle.
C10_FinalizeReleases ==
  \A s \in Sessions :
    Finalized(s) =>
      /\ sysTrack[s] = "ended"
      /\ micResult[s] = "granted" => micTrack[s] = "ended"
      /\ ctx[s] = "closed"
      /\ s \notin intervals
      /\ s = cur => /\ recorderState = IDLE
                    /\ timer = 0
                    /\ intervals = {}
                    /\ activeStreams = {}

C10_Witness ==
  \E s \in Sessions :
    /\ Finalized(s)
    /\ micResult[s] = "granted"
    /\ stops = {"manual"}
    /\ micTrack[s] = "ended"
    /\ s = cur
    /\ lastFinal.elapsed = MaxTimer

C12_HandleReleased ==
  objectURLs = {recordings[i].url : i \in 1..Len(recordings)}

C14_ProcessingIsOutstanding == processingIds = {c.id : c \in calls}

C14_Witness ==
  /\ calls = {}
  /\ processingIds = {}
  /\ alerts > 0
  /\ analyzed # {}

\* C15: an analyze call changes nothing but the transcription and the summary
\* of the Recording with its identifier. The click changes no Recording; a
\* completion that raises no alert sets both fields of that Recording to the
\* two values parsed from one response and leaves every other field and every
\* other Recording as it was; a failure raises an alert and leaves every
\* Recording unchanged.
C15_Completes(c) ==
  \/ /\ alerts' = alerts + 1
     /\ recordings' = recordings
  \/ /\ alerts' = alerts
     /\ Len(recordings') = Len(recordings)
     /\ \A i \in 1..Len(recordings) :
          IF recordings[i].id = c.id
            THEN \E t \in Texts :
                   recordings'[i] =
                     [recordings[i] EXCEPT !.transcription = ParseResponse(t).transcription,
                                           !.summary = ParseResponse(t).summary]
            ELSE recordings'[i] = recordings[i]

C15_AnalyzeFrame ==
  [][/\ nAnalyze' # nAnalyze =>
          /\ recordings' = recordings
          /\ calls' = calls => alerts' = alerts + 1
     /\ \A c \in calls : (\A d \in calls' : d.id # c.id) => C15_Completes(c)]_vars

C15_Witness ==
  /\ alerts > 0
  /\ \E i \in 1..Len(recordings) :
        /\ recordings[i].id \in analyzed
        /\ recordings[i].summary # NoText

\* C16: the list is most recent first: the timestamps never increase from head
\* to tail, and a finalization puts the new Recording at the head, in front of
\* the entries that were there, in their order.
C16_Sorted ==
  \A i, j \in 1..Len(recordings) :
     i < j => recordings[i].timestamp >= recordings[j].timestamp

C16_Prepends ==
  Len(recordings') > Len(recordings) => Tail(recordings') = recordings

C16_MostRecentFirst == []C16_Sorted /\ [][C16_Prepends]_vars

C16_Witness ==
  /\ Len(recordings) = 2
  /\ recordings[1].timestamp > recordings[2].timestamp
  /\ recordings[2].transcription # NoText

\* C17: with the credential absent or empty every analyze call fails before
\* any network activity: no client is constructed, no request is sent, no call
\* stays outstanding, each invocation has raised its alert, and no Recording
\* has a transcription or a summary.
C17_NoKeyNoCall ==
  apiKey = "" =>
    /\ clients = 0
    /\ requests = 0
    /\ calls = {}
    /\ alerts = nAnalyze
    /\ \A i \in 1..Len(recordings) :
         /\ recordings[i].transcription = NoText
         /\ recordings[i].summary = NoText

C17_Witness == apiKey = "" /\ nAnalyze > 0 /\ recordings # <<>>

\* C18: the visualizer draws only while it is rendered with a non-null stream
\* and the active flag set. Once an effect has run with the stream null or
\* the flag off, no frame is left scheduled and the canvas is clear; once the
\* component is torn down no frame is left scheduled either, but its canvas is
\* not cleared: it is detached as last drawn.
C18_Inv ==
  /\ (vizPhase = "mounted" /\ (vizStream = 0 \/ ~vizActive))
       => (pendingFrames = {} /\ canvas = "blank")
  /\ vizPhase = "removed" => pendingFrames = {}

C18_DrawOnlyActive ==
  nFrames' # nFrames => (vizPhase' = "mounted" /\ vizStream' # 0 /\ vizActive')

C18_StopsWhenInactive == []C18_Inv /\ [][C18_DrawOnlyActive]_vars

C18_Witness ==
  /\ vizPhase = "removed"
  /\ nFrames >= 2
  /\ canvas = "bars"
  /\ vizCtx = "closed"

\* C18 as stated: inactive or torn down, no frame is scheduled and the canvas
\* is clear.
C18_ClearedOnTeardown ==
  (vizPhase = "removed" \/ (vizPhase = "mounted" /\ (vizStream = 0 \/ ~vizActive)))
    => (pendingFrames = {} /\ canvas = "blank")

\* C19: list updates interleaved with an outstanding analyze call are not
\* lost: every Recording ever finalized is in the list unless it was deleted,
\* a deleted Recording is never back in the list, and only a Recording whose
\* own analysis returned a result carries a transcription or a summary.
C19_NoLostUpdate ==
  /\ Len(recordings) + Cardinality(deleted) = TotalCreated
  /\ Ids(recordings) \cap deleted = {}
  /\ \A i \in 1..Len(recordings) :
       (recordings[i].transcription # NoText \/ recordings[i].summary # NoText)
         => recordings[i].id \in analyzed

\* an analysis is in flight whose Recording was deleted and during which
\* another Recording was finalized
C19_Witness ==
  \E c \in calls :
     /\ c.sent
     /\ c.id \in deleted
     /\ TotalCreated > c.seen
     /\ recordings # <<>>

\* C20: the recorder state is only ever idle, preparing or recording, and it
\* is preparing only while a start() is waiting for an acquisition: once the
\* start() has returned the state is idle or recording.
C20_StartSettles ==
  /\ recorderState \in {IDLE, PREPARING, RECORDING}
  /\ pc = "idle" => recorderState \in {IDLE, RECORDING}

C20_Witness ==
  /\ cur = 2
  /\ pc = "idle"
  /\ recorderState = RECORDING
  /\ ~displayResult[1].ok

====
